---- MODULE Spec2Model ----
(***************************************************************************)
(* Model of the location-standardization pipeline of SuperLever:           *)
(*   src/location/standardize_location.py   (batch runner)                 *)
(*   src/location/retry_failed_locations.py (retry of FAILED entries)      *)
(*   src/location/merge_chatgpt_results.py  (merge of the fallback pass)   *)
(* The persisted store is a JSON file holding an insertion-ordered dict;   *)
(* a dict is modelled as a sequence of <<key, value>> pairs with distinct  *)
(* keys.  Every file rewrite is open(path, 'w') (truncation) followed by   *)
(* json.dump (the content), two separate steps of the process.             *)
(***************************************************************************)
EXTENDS Naturals, Sequences, FiniteSets

\* ---------------------------------------------------------------- bounds
\* scripts launched in one behaviour
MaxRuns == 2
\* largest value typed at the "number of locations" prompt
MaxLimit == 1

\* ------------------------------------------------------------- sentinels
FAILED == "FAILED"
UNKNOWN == "UNKNOWN"
MISSING_FROM_RESPONSE == "MISSING_FROM_RESPONSE"
\* the None returned by standardize_location when the lookup fails
None == "None"

\* location strings: raw strings and canonical strings share one alphabet
\* (a raw string may already be in canonical form)
Strings == {"a", "b", "c"}

\* ------------------------------------------------------------ dict model
EmptyDict == << >>

Keys(d) == {d[j][1] : j \in 1..Len(d)}

Has(d, k) == k \in Keys(d)

Get(d, k) == d[CHOOSE j \in 1..Len(d) : d[j][1] = k][2]

\* d[k] = v : an existing key keeps its position, a new key is appended
DictSet(d, k, v) ==
    IF Has(d, k)
    THEN [j \in 1..Len(d) |-> IF d[j][1] = k THEN <<k, v>> ELSE d[j]]
    ELSE Append(d, <<k, v>>)

\* ------------------------------------------------------------ file model
NotFound == [state |-> "absent", data |-> EmptyDict]

\* open(path, 'w'): the file exists and is empty or partly written, so
\* json.load on it raises
Truncated == [state |-> "partial", data |-> EmptyDict]

\* json.dump(d, f) followed by the close of the with-block
Dumped(d) == [state |-> "ok", data |-> d]

\* an API result with no address field set and no display name
NoResult ==
    [address |-> [city |-> "", town |-> "", village |-> "", suburb |-> "",
                  state |-> "", province |-> "", county |-> "",
                  country |-> ""],
     display_name |-> << >>]

\* _extract_location_components has not been called
Unset == [kind |-> "unset"]

\* geocode_location of the service returned None
NoCoords == [found |-> FALSE, pos |-> 0, city |-> ""]

\* geocode_location of the service returned a result; its coordinates are a
\* position, its 'city' is the city of the response's address, '' when the
\* address has none
Coords(x, city) == [found |-> TRUE, pos |-> x, city |-> city]

\* standardize_locations_batch returned None (request error or a response
\* that is not JSON), or was not called
NotParsed ==
    [parsed |-> FALSE, mapping |-> FALSE, dict |-> EmptyDict, items |-> << >>]

\* standardize_locations_batch returned the parsed response, a JSON object
Parsed(d) ==
    [parsed |-> TRUE, mapping |-> TRUE, dict |-> d, items |-> << >>]

\* standardize_locations_batch returned the parsed response, a JSON array
\* of strings: json.loads accepts any JSON document
ParsedArray(a) ==
    [parsed |-> TRUE, mapping |-> FALSE, dict |-> EmptyDict, items |-> a]

\* ---------------------------------------------------------------- inputs
StringOrder == <<"a", "b", "c">>

\* the 'locations' lists of the input file: duplicate-free
\* (extract_batch_locations.py writes the keys of a Counter).  Lookup results
\* and fallback results range over all of Strings, so every duplicate-free
\* list is a renaming of one of these prefixes.
InputLists == {SubSeq(StringOrder, 1, n) : n \in 0..Len(StringOrder)}

\* what standardize_location can return: a canonical string or None
LookupResults == Strings \cup {None}

\* what the fallback file can hold for a key: a canonical string or one of
\* the sentinels
FallbackResults == Strings \cup {UNKNOWN, MISSING_FROM_RESPONSE, FAILED}

\* the fallback files a merge of main file f can meet ("-" marks a key that
\* is not in the file).  The merge reads the fallback only at the FAILED
\* keys of the main file (lines 76-79), so entries under other keys are
\* left out, and it only looks keys up, so one key order per mapping is
\* enough.
FallbackFiles(f) ==
    LET failed == SelectSeq(f.data, LAMBDA e : e[2] = FAILED)
    IN  {NotFound} \cup
        {Dumped(SelectSeq([j \in 1..Len(failed) |-> <<failed[j][1], r[j]>>],
                          LAMBDA e : e[2] # "-")) :
            r \in [1..Len(failed) -> FallbackResults \cup {"-"}]}

\* what the prompt for a limit yields: 0 stands for None (no limit)
Limits == 0..MaxLimit

VARIABLES
    input_file,        \* batch_locations_001_121.json: the 'locations' list
    main_file,         \* standardized_batch_locations.json
    backup_file,       \* standardized_batch_locations_backup.json
    script,            \* the script that runs or ran last
    pc,                \* its position
    runs,              \* scripts launched so far
    locations,         \* std: the work list after filtering and limiting
    existing_data,     \* std: the store as loaded at start
    output_data,       \* std: the dict written after every item
    max_locations,     \* std: the limit of this run (0 = None)
    i,                 \* std / retry: items completed in the loop
    data,              \* retry: the dict loaded and rewritten
    failed_locations,  \* retry: the work list
    main_data,         \* merge: the main file as loaded
    chatgpt_data,      \* merge: the fallback file as loaded
    updated_main_data, \* merge: the output being built
    idx,               \* merge: entries of main_data processed
    counts,            \* merge: the counters of the LocationMerger
    lookups,           \* items this run has looked up (observation)
    ever_good,         \* keys that held a non-FAILED value in a written store
    full_runs,         \* no-limit std runs that reached their end in a row,
                       \* up to now, counted to 2 (observation)
    geocoded_file,     \* geocoded_locations.json
    reverse_file,      \* geocoded_locations_reverse_mapping.json
    geo_runs,          \* geocoder runs launched so far
    standardized_data, \* geo: the standardization store as loaded
    unique_standardized, \* geo: the work list after filtering and limiting
    existing_geocoded, \* geo: the geocoded store as loaded at start
    geo_full_run_on,   \* the standardization store read by the last
                       \* no-limit geocoder run that reached its end
                       \* (observation)
    api_result,        \* canonicalizer: the first element of the response
    canonical,         \* canonicalizer: what _extract_location_components
                       \* returned
    standardized_dict, \* fallback pass: the parsed response
    chatgpt_results_file, \* chatgpt_standardized_locations.json as written
                       \* by the fallback pass
    summary,           \* fallback pass: the numbers _print_summary printed
    candidates,        \* service: the entities passed in
    center_location,   \* service: the center passed in
    radius_miles,      \* service: the radius passed in
    cache,             \* service: self.cache
    center_coords,     \* service: the resolved center
    candidates_in_radius, \* service: the result list
    resolved,          \* service: per entity, whether its lookup returned
                       \* coordinates (observation)
    city_groups,       \* service: the result of group_candidates_by_city
    calls,             \* service: operations called so far
    requests           \* service: the locations requested from the
                       \* geocoding service, in order (observation)

vars == <<input_file, main_file, backup_file, script, pc, runs, locations,
          existing_data, output_data, max_locations, i, data,
          failed_locations, main_data, chatgpt_data, updated_main_data, idx,
          counts,
          lookups, ever_good, full_runs,
          geocoded_file, reverse_file, geo_runs, standardized_data,
          unique_standardized, existing_geocoded, geo_full_run_on,
          api_result, canonical,
          standardized_dict, chatgpt_results_file, summary,
          candidates, center_location, radius_miles, cache, center_coords,
          candidates_in_radius, resolved, city_groups, calls, requests>>

stdLocals == <<locations, existing_data, output_data, max_locations>>
retryLocals == <<data, failed_locations>>
mergeLocals == <<main_data, chatgpt_data, updated_main_data, idx, counts>>
geoLocals == <<standardized_data, unique_standardized, existing_geocoded>>
geoFiles == <<geocoded_file, reverse_file, geo_runs, geo_full_run_on>>
canonVars == <<api_result, canonical>>
fallbackVars == <<standardized_dict, chatgpt_results_file, summary>>
serviceVars == <<candidates, center_location, radius_miles, cache,
                 center_coords, candidates_in_radius, resolved, city_groups,
                 calls, requests>>
\* what the standardizer, the retry and the merge never touch
restVars == <<geoFiles, canonVars, fallbackVars, serviceVars>>
extVars == <<geoLocals, restVars>>

\* no script is running: none started yet, the last one returned, raised,
\* or was terminated
Idle == pc \in {"idle", "done", "returned_false", "raised", "killed"}

\* keys with a non-FAILED value
GoodKeys(d) == {k \in Keys(d) : Get(d, k) # FAILED}


\* the part of the start of every script that forgets the previous run
Launch(name) ==
    /\ Idle
    /\ runs < MaxRuns
    /\ runs' = runs + 1
    /\ script' = name
    /\ i' = 0
    /\ lookups' = {}

ResetStd ==
    /\ locations' = << >>
    /\ existing_data' = EmptyDict
    /\ output_data' = EmptyDict
    /\ max_locations' = 0

ResetRetry ==
    /\ data' = EmptyDict
    /\ failed_locations' = << >>

\* LocationMerger.__init__: the counters of a new merger
NoCounts ==
    [merged_count |-> 0, skipped_count |-> 0, unknown_count |-> 0,
     missing_count |-> 0]

ResetMerge ==
    /\ main_data' = EmptyDict
    /\ chatgpt_data' = EmptyDict
    /\ updated_main_data' = EmptyDict
    /\ idx' = 0
    /\ counts' = NoCounts

ResetGeo ==
    /\ standardized_data' = EmptyDict
    /\ unique_standardized' = << >>
    /\ existing_geocoded' = EmptyDict

\* the main file after json.dump(d) completes
WriteMain(d) ==
    /\ main_file' = Dumped(d)
    /\ ever_good' = ever_good \cup GoodKeys(d)

\* ------------------------------------------------ standardize_location.py
\* a load that never resumes: every run starts from an empty store
LoadExisting_AlwaysFresh(f) == EmptyDict

\* a load that leaves a marker entry behind when json.load raised
LoadExisting_Marker(f) ==
    IF f.state = "ok" THEN f.data
    ELSE IF f.state = "partial" THEN <<<<"", FAILED>>>> ELSE EmptyDict

\* existing_data after the try-block: the parsed file, or {} when the file
\* is absent or json.load raised
LoadExisting(f) == IF f.state = "ok" THEN f.data ELSE EmptyDict

\* a filter that skips only successes, so FAILED items are tried again
FilterProcessed_RetryFailed(locs, existing) ==
    SelectSeq(locs, LAMBDA loc : \/ ~Has(existing, loc)
                                 \/ Get(existing, loc) = FAILED)

\* [loc for loc in locations if loc not in existing_data]
FilterProcessed(locs, existing) ==
    SelectSeq(locs, LAMBDA loc : ~Has(existing, loc))

\* locations[:max_locations] when a limit is given and is smaller
ApplyLimit(locs, max) ==
    IF max # 0 /\ max < Len(locs) THEN SubSeq(locs, 1, max) ELSE locs

\* process_locations_file up to the loop: read the input, load the
\* existing store, filter, limit, copy
StdStart(max) ==
    /\ Launch("std")
    /\ ResetRetry /\ ResetMerge
    /\ max_locations' = max
    /\ UNCHANGED <<input_file, main_file, backup_file, ever_good>>
    /\ IF input_file.state # "ok"
       THEN \* "Error: ... not found!"
            /\ pc' = "done"
            /\ locations' = << >>
            /\ existing_data' = EmptyDict
            /\ output_data' = EmptyDict
            /\ full_runs' = 0
       ELSE LET existing == LoadExisting(main_file)
                remaining == IF main_file.state = "ok"
                             THEN FilterProcessed(input_file.data, existing)
                             ELSE input_file.data
            IN  /\ existing_data' = existing
                /\ IF main_file.state = "ok" /\ Len(remaining) = 0
                   THEN \* "All locations already processed!"
                        /\ pc' = "done"
                        /\ locations' = remaining
                        /\ output_data' = EmptyDict
                        /\ full_runs' = IF max # 0 THEN 0
                                        ELSE IF full_runs = 0 THEN 1 ELSE 2
                   ELSE /\ pc' = "std_loop"
                        /\ locations' = ApplyLimit(remaining, max)
                        /\ output_data' = existing
                        /\ full_runs' = 0
    /\ ResetGeo
    /\ UNCHANGED restVars

\* the value stored for a location: the canonical string, or FAILED when
\* standardize_location returned None
StdOutcome(standardized) ==
    IF standardized # None THEN standardized ELSE FAILED

\* one loop iteration up to the save: lookup and assignment
StdStandardize(standardized) ==
    /\ script = "std" /\ pc = "std_loop"
    /\ i < Len(locations)
    /\ LET location == locations[i + 1]
       IN  /\ output_data' = DictSet(output_data, location,
                                     StdOutcome(standardized))
           /\ lookups' = lookups \cup {location}
    /\ pc' = "std_open"
    /\ UNCHANGED <<input_file, main_file, backup_file, script, runs,
                   locations, existing_data, max_locations, i, retryLocals,
                   mergeLocals, ever_good, full_runs>>
    /\ UNCHANGED extVars

\* open(output_file, 'w') of the per-item save
StdOpen ==
    /\ script = "std" /\ pc = "std_open"
    /\ main_file' = Truncated
    /\ pc' = "std_dump"
    /\ UNCHANGED <<input_file, backup_file, script, runs, stdLocals, i,
                   retryLocals, mergeLocals, lookups, ever_good,
                   full_runs>>
    /\ UNCHANGED extVars

\* json.dump of the per-item save, then time.sleep(0.5)
StdDump ==
    /\ script = "std" /\ pc = "std_dump"
    /\ WriteMain(output_data)
    /\ i' = i + 1
    /\ pc' = "std_loop"
    /\ UNCHANGED <<input_file, backup_file, script, runs, stdLocals,
                   retryLocals, mergeLocals, lookups, full_runs>>
    /\ UNCHANGED extVars

\* open(output_file, 'w') of the final save after the loop
StdFinalOpen ==
    /\ script = "std" /\ pc = "std_loop"
    /\ i = Len(locations)
    /\ main_file' = Truncated
    /\ pc' = "std_final_dump"
    /\ UNCHANGED <<input_file, backup_file, script, runs, stdLocals, i,
                   retryLocals, mergeLocals, lookups, ever_good,
                   full_runs>>
    /\ UNCHANGED extVars

\* json.dump of the final save; the text mirror and the summary follow
StdFinalDump ==
    /\ script = "std" /\ pc = "std_final_dump"
    /\ WriteMain(output_data)
    /\ pc' = "done"
    /\ full_runs' = IF max_locations # 0 THEN 0
                    ELSE IF full_runs = 0 THEN 1 ELSE 2
    /\ UNCHANGED <<input_file, backup_file, script, runs, stdLocals, i,
                   retryLocals, mergeLocals, lookups>>
    /\ UNCHANGED extVars


\* ---------------------------------------------- retry_failed_locations.py
FailedKeys_All(d) == [j \in 1..Len(d) |-> d[j][1]]

\* list(failed_entries.keys()): the FAILED keys in dict order
FailedKeys(d) ==
    LET failed == SelectSeq(d, LAMBDA e : e[2] = FAILED)
    IN  [j \in 1..Len(failed) |-> failed[j][1]]

\* retry_failed_locations up to the loop
RetryStart(max_retries) ==
    /\ Launch("retry")
    /\ ResetStd /\ ResetMerge
    /\ full_runs' = 0
    /\ UNCHANGED <<input_file, main_file, backup_file, ever_good>>
    /\ IF main_file.state = "absent"
       THEN \* "Error: ... not found!"
            /\ pc' = "done"
            /\ data' = EmptyDict
            /\ failed_locations' = << >>
       ELSE IF main_file.state = "partial"
       THEN \* json.load raises, nothing catches it
            /\ pc' = "raised"
            /\ data' = EmptyDict
            /\ failed_locations' = << >>
       ELSE /\ data' = main_file.data
            /\ IF Len(FailedKeys(main_file.data)) = 0
               THEN \* "No failed entries found! Nothing to retry."
                    /\ pc' = "done"
                    /\ failed_locations' = << >>
               ELSE /\ pc' = "retry_loop"
                    /\ failed_locations' =
                           ApplyLimit(FailedKeys(main_file.data), max_retries)
    /\ ResetGeo
    /\ UNCHANGED restVars

\* data after one retry: updated on success, left alone on failure
RetryOutcome(d, location, standardized) ==
    IF standardized # None THEN DictSet(d, location, standardized) ELSE d

\* one loop iteration up to the save
RetryStandardize(standardized) ==
    /\ script = "retry" /\ pc = "retry_loop"
    /\ i < Len(failed_locations)
    /\ LET location == failed_locations[i + 1]
       IN  /\ data' = RetryOutcome(data, location, standardized)
           /\ lookups' = lookups \cup {location}
    /\ pc' = "retry_open"
    /\ UNCHANGED <<input_file, main_file, backup_file, script, runs,
                   stdLocals, i, failed_locations, mergeLocals, ever_good,
                   full_runs>>
    /\ UNCHANGED extVars

\* open(input_file, 'w') of the per-item save
RetryOpen ==
    /\ script = "retry" /\ pc = "retry_open"
    /\ main_file' = Truncated
    /\ pc' = "retry_dump"
    /\ UNCHANGED <<input_file, backup_file, script, runs, stdLocals, i,
                   retryLocals, mergeLocals, lookups, ever_good,
                   full_runs>>
    /\ UNCHANGED extVars

\* json.dump of the per-item save, then time.sleep(0.5)
RetryDump ==
    /\ script = "retry" /\ pc = "retry_dump"
    /\ WriteMain(data)
    /\ i' = i + 1
    /\ pc' = "retry_loop"
    /\ UNCHANGED <<input_file, backup_file, script, runs, stdLocals,
                   retryLocals, mergeLocals, lookups, full_runs>>
    /\ UNCHANGED extVars

\* open(input_file, 'w') of the final save
RetryFinalOpen ==
    /\ script = "retry" /\ pc = "retry_loop"
    /\ i = Len(failed_locations)
    /\ main_file' = Truncated
    /\ pc' = "retry_final_dump"
    /\ UNCHANGED <<input_file, backup_file, script, runs, stdLocals, i,
                   retryLocals, mergeLocals, lookups, ever_good,
                   full_runs>>
    /\ UNCHANGED extVars

\* json.dump of the final save
RetryFinalDump ==
    /\ script = "retry" /\ pc = "retry_final_dump"
    /\ WriteMain(data)
    /\ pc' = "done"
    /\ UNCHANGED <<input_file, backup_file, script, runs, stdLocals, i,
                   retryLocals, mergeLocals, lookups, full_runs>>
    /\ UNCHANGED extVars

\* ----------------------------------------------- merge_chatgpt_results.py
\* merge_chatgpt_results up to the backup: both files must exist, both
\* are loaded
MergeStart(chatgpt_file) ==
    /\ Launch("merge")
    /\ ResetStd /\ ResetRetry
    /\ full_runs' = 0
    /\ updated_main_data' = EmptyDict
    /\ idx' = 0
    /\ counts' = NoCounts
    /\ UNCHANGED <<input_file, main_file, backup_file, ever_good>>
    /\ IF main_file.state = "absent" \/ chatgpt_file.state = "absent"
       THEN \* return False
            /\ pc' = "returned_false"
            /\ main_data' = EmptyDict
            /\ chatgpt_data' = EmptyDict
       ELSE IF main_file.state = "partial"
       THEN \* json.load raises; main() prints the error
            /\ pc' = "raised"
            /\ main_data' = EmptyDict
            /\ chatgpt_data' = EmptyDict
       ELSE /\ pc' = "merge_backup_open"
            /\ main_data' = main_file.data
            /\ chatgpt_data' = chatgpt_file.data
    /\ ResetGeo
    /\ UNCHANGED restVars

\* open(backup_file, 'w')
MergeBackupOpen ==
    /\ script = "merge" /\ pc = "merge_backup_open"
    /\ backup_file' = Truncated
    /\ pc' = "merge_backup_dump"
    /\ UNCHANGED <<input_file, main_file, script, runs, stdLocals, i,
                   retryLocals, mergeLocals, lookups, ever_good,
                   full_runs>>
    /\ UNCHANGED extVars

\* a backup that dumps the dict being built instead of the dict loaded
MergeBackupDump_OfOutput ==
    /\ script = "merge" /\ pc = "merge_backup_dump"
    /\ backup_file' = Dumped(updated_main_data)
    /\ pc' = "merge_loop"
    /\ UNCHANGED <<input_file, main_file, script, runs, stdLocals, i,
                   retryLocals, mergeLocals, lookups, ever_good,
                   full_runs>>
    /\ UNCHANGED extVars

\* json.dump(main_data, f) into the backup
MergeBackupDump ==
    /\ script = "merge" /\ pc = "merge_backup_dump"
    /\ backup_file' = Dumped(main_data)
    /\ pc' = "merge_loop"
    /\ UNCHANGED <<input_file, main_file, script, runs, stdLocals, i,
                   retryLocals, mergeLocals, lookups, ever_good,
                   full_runs>>
    /\ UNCHANGED extVars

\* a loop body without the duplicate-key check
MergeEntry_NoCollisionCheck(updated, original_location, value, chatgpt) ==
    IF value = FAILED
    THEN IF Has(chatgpt, original_location)
         THEN LET chatgpt_result == Get(chatgpt, original_location)
              IN  IF chatgpt_result \in {UNKNOWN, MISSING_FROM_RESPONSE, FAILED}
                  THEN DictSet(updated, original_location, FAILED)
                  ELSE DictSet(updated, chatgpt_result, FAILED)
         ELSE DictSet(updated, original_location, FAILED)
    ELSE DictSet(updated, original_location, value)

\* a loop body whose sentinel list misses MISSING_FROM_RESPONSE
MergeEntry_MissingUsable(updated, original_location, value, chatgpt) ==
    IF value = FAILED
    THEN IF Has(chatgpt, original_location)
         THEN LET chatgpt_result == Get(chatgpt, original_location)
              IN  IF chatgpt_result \in {UNKNOWN, FAILED}
                  THEN DictSet(updated, original_location, FAILED)
                  ELSE IF Has(updated, chatgpt_result)
                       THEN DictSet(updated, original_location, FAILED)
                       ELSE DictSet(updated, chatgpt_result, FAILED)
         ELSE DictSet(updated, original_location, FAILED)
    ELSE DictSet(updated, original_location, value)

\* a loop body that marks an upgraded entry as standardized
MergeEntry_MarkResolved(updated, original_location, value, chatgpt) ==
    IF value = FAILED
    THEN IF Has(chatgpt, original_location)
         THEN LET chatgpt_result == Get(chatgpt, original_location)
              IN  IF chatgpt_result \in {UNKNOWN, MISSING_FROM_RESPONSE, FAILED}
                  THEN DictSet(updated, original_location, FAILED)
                  ELSE IF Has(updated, chatgpt_result)
                       THEN DictSet(updated, original_location, FAILED)
                       ELSE DictSet(updated, chatgpt_result, chatgpt_result)
         ELSE DictSet(updated, original_location, FAILED)
    ELSE DictSet(updated, original_location, value)

\* the body of the merge loop for one entry of main_data
MergeEntry(updated, original_location, value, chatgpt) ==
    IF value = FAILED
    THEN IF Has(chatgpt, original_location)
         THEN LET chatgpt_result == Get(chatgpt, original_location)
              IN  IF chatgpt_result \in {UNKNOWN, MISSING_FROM_RESPONSE, FAILED}
                  THEN DictSet(updated, original_location, FAILED)
                  ELSE IF Has(updated, chatgpt_result)
                       THEN DictSet(updated, original_location, FAILED)
                       ELSE DictSet(updated, chatgpt_result, FAILED)
         ELSE DictSet(updated, original_location, FAILED)
    ELSE DictSet(updated, original_location, value)

\* the whole merge loop: updated_main_data after the entries k.. of
\* main_data
RECURSIVE MergeLoop(_, _, _, _)
MergeLoop(updated, main, k, chatgpt) ==
    IF k > Len(main) THEN updated
    ELSE MergeLoop(MergeEntry(updated, main[k][1], main[k][2], chatgpt),
                   main, k + 1, chatgpt)

\* the counters after the body of the merge loop for one entry: a FAILED
\* entry with a fallback result adds one to the counter of its branch; the
\* branch of the duplicate key has no counter
CountEntry(c, updated, original_location, value, chatgpt) ==
    IF value = FAILED /\ Has(chatgpt, original_location)
    THEN LET chatgpt_result == Get(chatgpt, original_location)
         IN  IF chatgpt_result = UNKNOWN
             THEN [c EXCEPT !.unknown_count = @ + 1]
             ELSE IF chatgpt_result = MISSING_FROM_RESPONSE
             THEN [c EXCEPT !.missing_count = @ + 1]
             ELSE IF chatgpt_result = FAILED
             THEN [c EXCEPT !.skipped_count = @ + 1]
             ELSE IF Has(updated, chatgpt_result)
             THEN c
             ELSE [c EXCEPT !.merged_count = @ + 1]
    ELSE c

\* one iteration of "for original_location, value in main_data.items()"
MergeStep ==
    /\ script = "merge" /\ pc = "merge_loop"
    /\ idx < Len(main_data)
    /\ updated_main_data' = MergeEntry(updated_main_data,
                                       main_data[idx + 1][1],
                                       main_data[idx + 1][2], chatgpt_data)
    /\ counts' = CountEntry(counts, updated_main_data,
                            main_data[idx + 1][1], main_data[idx + 1][2],
                            chatgpt_data)
    /\ idx' = idx + 1
    /\ UNCHANGED <<input_file, main_file, backup_file, script, pc, runs,
                   stdLocals, i, retryLocals, main_data, chatgpt_data,
                   lookups, ever_good, full_runs>>
    /\ UNCHANGED extVars

\* open(main_path, 'w') after the loop
MergeSaveOpen ==
    /\ script = "merge" /\ pc = "merge_loop"
    /\ idx = Len(main_data)
    /\ main_file' = Truncated
    /\ pc' = "merge_save_dump"
    /\ UNCHANGED <<input_file, backup_file, script, runs, stdLocals, i,
                   retryLocals, mergeLocals, lookups, ever_good,
                   full_runs>>
    /\ UNCHANGED extVars

\* json.dump of the merged dict; the text mirror and the summary follow
MergeSaveDump ==
    /\ script = "merge" /\ pc = "merge_save_dump"
    /\ WriteMain(updated_main_data)
    /\ pc' = "done"
    /\ UNCHANGED <<input_file, backup_file, script, runs, stdLocals, i,
                   retryLocals, mergeLocals, lookups, full_runs>>
    /\ UNCHANGED extVars

\* ----------------------------------------------------------------- geocoder
\* geocode_locations.py: process_standardized_locations.  The geocoded store
\* is a dict from canonical string to an entry; an entry keeps the
\* coordinates (lat, lng, display_name, importance: one value of
\* Coordinates), the raw strings and their count.
MaxGeoRuns == 2

Coordinates == {"g1", "g2"}

\* what geocode_location can return: coordinates or None
GeocodeResults == Coordinates \cup {None}

\* the entries of original_to_standardized: the non-FAILED entries of the
\* standardization store, in its order
OriginalToStandardized(d) == SelectSeq(d, LAMBDA e : e[2] # FAILED)

\* successful_standardized: canonical string -> raw strings that map to it,
\* keyed in order of first appearance
SuccessfulStandardized(d) ==
    LET ok == OriginalToStandardized(d)
        first == SelectSeq([j \in 1..Len(ok) |-> j],
                           LAMBDA j : \A m \in 1..(j - 1) :
                                          ok[m][2] # ok[j][2])
        originals(c) == LET es == SelectSeq(ok, LAMBDA e : e[2] = c)
                        IN  [j \in 1..Len(es) |-> es[j][1]]
    IN  [n \in 1..Len(first) |->
            <<ok[first[n]][2], originals(ok[first[n]][2])>>]

\* list(successful_standardized.keys())
UniqueStandardized(d) ==
    LET groups == SuccessfulStandardized(d)
    IN  [n \in 1..Len(groups) |-> groups[n][1]]

\* existing_geocoded: the prior output, {} when it is absent or unreadable
LoadGeocoded(f) == IF f.state = "ok" THEN f.data ELSE EmptyDict

\* [loc for loc in unique_standardized if loc not in existing_geocoded]
FilterGeocoded(unique, existing) ==
    SelectSeq(unique, LAMBDA loc : ~Has(existing, loc))

\* the entry stored for a geocoded canonical string
GeoEntry(geocoded, original_locations) ==
    [coords |-> geocoded,
     original_locations |-> original_locations,
     original_count |-> Len(original_locations)]

\* output_data after one item: an entry on success, nothing on failure
\* (the canonical string only goes to self.failed_geocoding)
GeoOutcome(d, standardized_location, geocoded, original_locations) ==
    IF geocoded # None
    THEN DictSet(d, standardized_location,
                 GeoEntry(geocoded, original_locations))
    ELSE d

\* _create_reverse_mapping: raw string -> canonical string and coordinates,
\* for the raw strings whose canonical string is in the geocoded data
ReverseMapping(geocoded_data, original_to_standardized) ==
    LET hit == SelectSeq(original_to_standardized,
                         LAMBDA e : Has(geocoded_data, e[2]))
    IN  [j \in 1..Len(hit) |->
            <<hit[j][1],
              [standardized_location |-> hit[j][2],
               coords |-> Get(geocoded_data, hit[j][2]).coords]>>]

geoFrame == <<input_file, main_file, backup_file, runs, locations,
              existing_data, max_locations, retryLocals, mergeLocals,
              ever_good, full_runs, canonVars, fallbackVars, serviceVars>>

\* start of a run up to the loop
GeoStart(max) ==
    /\ Idle
    /\ geo_runs < MaxGeoRuns
    /\ geo_runs' = geo_runs + 1
    /\ script' = "geo"
    /\ i' = 0
    /\ lookups' = {}
    /\ locations' = << >>
    /\ existing_data' = EmptyDict
    /\ max_locations' = max
    /\ ResetRetry /\ ResetMerge
    /\ UNCHANGED <<input_file, main_file, backup_file, runs, ever_good,
                   full_runs, geocoded_file, reverse_file, canonVars,
                   fallbackVars, serviceVars>>
    /\ IF main_file.state = "absent"
       THEN \* "Error: ... not found!"
            /\ pc' = "done"
            /\ ResetGeo
            /\ output_data' = EmptyDict
            /\ geo_full_run_on' = NotFound
       ELSE IF main_file.state = "partial"
       THEN \* json.load raises, nothing catches it
            /\ pc' = "raised"
            /\ ResetGeo
            /\ output_data' = EmptyDict
            /\ geo_full_run_on' = NotFound
       ELSE LET existing == LoadGeocoded(geocoded_file)
                remaining == FilterGeocoded(
                                 UniqueStandardized(main_file.data),
                                 existing)
            IN  /\ standardized_data' = main_file.data
                /\ existing_geocoded' = existing
                /\ IF geocoded_file.state = "ok" /\ Len(remaining) = 0
                   THEN \* "All locations already geocoded! No work to do."
                        /\ pc' = "done"
                        /\ unique_standardized' = remaining
                        /\ output_data' = EmptyDict
                        /\ geo_full_run_on' = IF max = 0 THEN main_file
                                              ELSE NotFound
                   ELSE /\ pc' = "geo_loop"
                        /\ unique_standardized' = ApplyLimit(remaining, max)
                        /\ output_data' = existing
                        /\ geo_full_run_on' = NotFound

\* one loop iteration up to the save: lookup and, on success, assignment
GeoGeocode(geocoded) ==
    /\ script = "geo" /\ pc = "geo_loop"
    /\ i < Len(unique_standardized)
    /\ LET standardized_location == unique_standardized[i + 1]
           groups == SuccessfulStandardized(standardized_data)
       IN  /\ output_data' = GeoOutcome(output_data, standardized_location,
                                        geocoded,
                                        Get(groups, standardized_location))
           /\ lookups' = lookups \cup {standardized_location}
    /\ pc' = "geo_open"
    /\ UNCHANGED <<geoFrame, geoLocals, geoFiles, script, i>>

\* open(output_file, 'w') of the per-item save
GeoOpen ==
    /\ script = "geo" /\ pc = "geo_open"
    /\ geocoded_file' = Truncated
    /\ pc' = "geo_dump"
    /\ UNCHANGED <<geoFrame, geoLocals, reverse_file, geo_runs,
                   geo_full_run_on, script, i, lookups, output_data>>

\* json.dump of the per-item save, then time.sleep(0.5)
GeoDump ==
    /\ script = "geo" /\ pc = "geo_dump"
    /\ geocoded_file' = Dumped(output_data)
    /\ i' = i + 1
    /\ pc' = "geo_loop"
    /\ UNCHANGED <<geoFrame, geoLocals, reverse_file, geo_runs,
                   geo_full_run_on, script, lookups, output_data>>

\* open(output_file, 'w') of the final save after the loop
GeoFinalOpen ==
    /\ script = "geo" /\ pc = "geo_loop"
    /\ i = Len(unique_standardized)
    /\ geocoded_file' = Truncated
    /\ pc' = "geo_final_dump"
    /\ UNCHANGED <<geoFrame, geoLocals, reverse_file, geo_runs,
                   geo_full_run_on, script, i, lookups, output_data>>

\* json.dump of the final save; the CSV mirror follows
GeoFinalDump ==
    /\ script = "geo" /\ pc = "geo_final_dump"
    /\ geocoded_file' = Dumped(output_data)
    /\ pc' = "geo_reverse_open"
    /\ UNCHANGED <<geoFrame, geoLocals, reverse_file, geo_runs,
                   geo_full_run_on, script, i, lookups, output_data>>

\* open(reverse_file, 'w') in _create_reverse_mapping
GeoReverseOpen ==
    /\ script = "geo" /\ pc = "geo_reverse_open"
    /\ reverse_file' = Truncated
    /\ pc' = "geo_reverse_dump"
    /\ UNCHANGED <<geoFrame, geoLocals, geocoded_file, geo_runs,
                   geo_full_run_on, script, i, lookups, output_data>>

\* json.dump(reverse_mapping, f); the summary follows
GeoReverseDump ==
    /\ script = "geo" /\ pc = "geo_reverse_dump"
    /\ reverse_file' = Dumped(ReverseMapping(
                                  output_data,
                                  OriginalToStandardized(standardized_data)))
    /\ pc' = "done"
    /\ geo_full_run_on' = IF max_locations = 0
                          THEN Dumped(standardized_data) ELSE NotFound
    /\ UNCHANGED <<geoFrame, geoLocals, geocoded_file, geo_runs, script, i,
                   lookups, output_data>>

\* ------------------------------------------------------------ canonicalizer
\* _extract_location_components of standardize_location.py; the copy in
\* retry_failed_locations.py (lines 56-113) is the same code.  An address
\* maps field names to names, "" standing for a field that is absent or
\* empty (address.get(...) is falsy for both).  A display name is its list
\* of comma-separated segments; the canonical string is the list of its
\* components, joined with ", " by the code.
MaxSegments == 4

Names == {"", "X", "Y"}

\* a segment that is a postal code: 5 digits or 5+4
ZIP == "12345"

Segments == {"D", ZIP}

Addresses ==
    [city : Names, town : Names, village : Names, suburb : Names,
     state : Names, province : Names, county : Names, country : Names]

DisplayNames == UNION {[1..n -> Segments] : n \in 0..MaxSegments}

\* data[0] of the response
ApiResults == [address : Addresses, display_name : DisplayNames]

\* a returned string, as the list of its comma-separated components
Str(components) == [kind |-> "str", components |-> components]

\* a returned None
NoneResult == [kind |-> "none"]

CityComponent_TownFirst(address) ==
    IF address.town # "" THEN address.town
    ELSE IF address.city # "" THEN address.city
    ELSE IF address.village # "" THEN address.village
    ELSE address.suburb

\* city (priority order): city, town, village, suburb; "" when none is set
CityComponent(address) ==
    IF address.city # "" THEN address.city
    ELSE IF address.town # "" THEN address.town
    ELSE IF address.village # "" THEN address.village
    ELSE address.suburb

\* state/province: state, province, county; "" when none is set
RegionComponent(address) ==
    IF address.state # "" THEN address.state
    ELSE IF address.province # "" THEN address.province
    ELSE address.county

\* parts: the components that are set, city first, then region, country
Parts(address) ==
    SelectSeq(<<CityComponent(address), RegionComponent(address),
                address.country>>,
              LAMBDA part : part # "")

CleanedParts_KeepAll(parts) == parts

\* cleaned_parts: a part is kept when no equal part came before it
CleanedParts(parts) ==
    LET keep == SelectSeq([j \in 1..Len(parts) |-> j],
                          LAMBDA j : \A m \in 1..(j - 1) :
                                         parts[m] # parts[j])
    IN  [n \in 1..Len(keep) |-> parts[keep[n]]]

\* re.sub(r'\b\d{5}(?:-\d{4})?\b', '', display_name): a postal-code segment
\* becomes empty
WithoutZip(segments) ==
    [j \in 1..Len(segments) |-> IF segments[j] = ZIP THEN "" ELSE segments[j]]

\* re.sub(r',\s*,', ',', display_name) scans left to right without overlap:
\* an empty segment between two commas goes with the two commas, unless its
\* left comma was the right comma of the match before
RECURSIVE Collapsed(_, _)
Collapsed(segments, j) ==
    /\ j \in 2..(Len(segments) - 1)
    /\ segments[j] = ""
    /\ ~Collapsed(segments, j - 1)

WithoutDoubleCommas(segments) ==
    LET keep == SelectSeq([j \in 1..Len(segments) |-> j],
                          LAMBDA j : ~Collapsed(segments, j))
    IN  [n \in 1..Len(keep) |-> segments[keep[n]]]

\* display_name.strip(' ,'): empty segments at both ends go
Stripped(segments) ==
    LET set == {j \in 1..Len(segments) : segments[j] # ""}
    IN  IF set = {} THEN << >>
        ELSE SubSeq(segments,
                    CHOOSE j \in set : \A m \in set : j <= m,
                    CHOOSE j \in set : \A m \in set : j >= m)

\* the whole function
extract_location_components(result) ==
    LET parts == Parts(result.address)
    IN  IF Len(parts) >= 2
        THEN Str(CleanedParts(parts))
        ELSE IF result.display_name # << >>
        THEN Str(Stripped(WithoutDoubleCommas(
                              WithoutZip(result.display_name))))
        ELSE NoneResult

\* the call of _extract_location_components on the first element of the
\* response
ExtractLocationComponents ==
    /\ canonical = Unset
    /\ canonical' = extract_location_components(api_result)
    /\ UNCHANGED <<input_file, main_file, backup_file, script, pc, runs,
                   stdLocals, i, retryLocals, mergeLocals, lookups,
                   ever_good, full_runs, geoLocals, geoFiles, api_result,
                   fallbackVars, serviceVars>>

\* -------------------------------------------------------------- fallback pass
\* chatgpt_location_standardizer.py: process_failed_locations.  The locals
\* data and failed_locations are those of the retry (same names in the
\* code).
\* a key the response may hold although no store has it
NotSent == "z"

\* what the response can hold for a key
ResponseValues == {"a", UNKNOWN}

\* the stores a fallback pass can meet: raw strings mapped to a canonical
\* string or FAILED, or no readable store
FallbackStores ==
    {NotFound, Truncated} \cup
    UNION {{Dumped([j \in 1..Len(l) |-> <<l[j], v[j]>>]) :
               v \in [1..Len(l) -> {FAILED, "a"}]} : l \in InputLists}

\* the parsed responses to a request about store d: any mapping over the
\* keys of the store, sent or not, and NotSent ("-" marks a key that is not
\* in the response)
Responses(d) ==
    LET keys == [j \in 1..Len(d) |-> d[j][1]] \o <<NotSent>>
    IN  {SelectSeq([j \in 1..Len(keys) |-> <<keys[j], r[j]>>],
                   LAMBDA e : e[2] # "-") :
            r \in [1..Len(keys) -> ResponseValues \cup {"-"}]}

\* the responses that are a JSON array: empty, or holding one key of the
\* store
ArrayResponses(d) == {<< >>} \cup {<<d[j][1]>> : j \in 1..Len(d)}

ChatgptResults_FromResponse(failed, response) == response

\* chatgpt_results: one entry per location sent, the response's value or
\* MISSING_FROM_RESPONSE
ChatgptResults(failed, response) ==
    [j \in 1..Len(failed) |->
        <<failed[j],
          IF Has(response, failed[j]) THEN Get(response, failed[j])
          ELSE MISSING_FROM_RESPONSE>>]

\* successful_standardizations after the loop
SuccessfulStandardizations(failed, response) ==
    Len(SelectSeq(failed, LAMBDA loc : /\ Has(response, loc)
                                       /\ Get(response, loc) # UNKNOWN))

\* unknown_locations after the loop
UnknownLocations(failed, response) ==
    Len(SelectSeq(failed, LAMBDA loc : /\ Has(response, loc)
                                       /\ Get(response, loc) = UNKNOWN))

\* nothing printed yet
NoSummary ==
    [printed |-> FALSE, total_attempted |-> 0, successful |-> 0,
     unknown |-> 0, missing |-> 0]

\* _print_summary: the four numbers it prints
PrintSummary(total_attempted, successful, unknown, total_processed) ==
    [printed |-> TRUE, total_attempted |-> total_attempted,
     successful |-> successful, unknown |-> unknown,
     missing |-> total_attempted - total_processed]

fallbackFrame == <<input_file, main_file, backup_file, runs, stdLocals,
                   mergeLocals, i, lookups, ever_good, full_runs, geoLocals,
                   geoFiles, canonVars, serviceVars>>

\* process_failed_locations up to the request
FallbackStart ==
    /\ pc = "idle"
    /\ script' = "fallback"
    /\ standardized_dict' = NotParsed
    /\ summary' = NoSummary
    /\ UNCHANGED <<fallbackFrame, chatgpt_results_file>>
    /\ IF main_file.state = "absent"
       THEN \* "Error: ... not found!"
            /\ pc' = "done"
            /\ data' = EmptyDict
            /\ failed_locations' = << >>
       ELSE IF main_file.state = "partial"
       THEN \* json.load raises, nothing catches it
            /\ pc' = "raised"
            /\ data' = EmptyDict
            /\ failed_locations' = << >>
       ELSE /\ data' = main_file.data
            /\ failed_locations' = FailedKeys(main_file.data)
            /\ pc' = IF Len(FailedKeys(main_file.data)) = 0
                     THEN "done"  \* "No failed locations found!"
                     ELSE "fallback_request"

\* standardize_locations_batch returns None
FallbackNoResponse ==
    /\ script = "fallback" /\ pc = "fallback_request"
    /\ standardized_dict' = NotParsed
    /\ pc' = "done"
    /\ UNCHANGED <<fallbackFrame, script, retryLocals, chatgpt_results_file,
                   summary>>

\* standardize_locations_batch returns the parsed response; chatgpt_results
\* is built from it
FallbackResponse(response) ==
    /\ script = "fallback" /\ pc = "fallback_request"
    /\ standardized_dict' = Parsed(response)
    /\ pc' = "fallback_open"
    /\ UNCHANGED <<fallbackFrame, script, retryLocals, chatgpt_results_file,
                   summary>>

\* standardize_locations_batch returns a parsed array: 'in' is list
\* membership; for a location that is in the array the subscript
\* standardized_dict[original_location] raises TypeError, which nothing in
\* process_failed_locations catches; otherwise every location is missing
FallbackArrayResponse(items) ==
    /\ script = "fallback" /\ pc = "fallback_request"
    /\ standardized_dict' = ParsedArray(items)
    /\ pc' = IF \E j \in 1..Len(failed_locations), n \in 1..Len(items) :
                    failed_locations[j] = items[n]
             THEN "raised"
             ELSE "fallback_open"
    /\ UNCHANGED <<fallbackFrame, script, retryLocals, chatgpt_results_file,
                   summary>>

\* open(output_file, 'w')
FallbackOpen ==
    /\ script = "fallback" /\ pc = "fallback_open"
    /\ chatgpt_results_file' = Truncated
    /\ pc' = "fallback_dump"
    /\ UNCHANGED <<fallbackFrame, script, retryLocals, standardized_dict,
                   summary>>

\* json.dump(chatgpt_results, f); the text mirror and the summary follow
FallbackDump ==
    /\ script = "fallback" /\ pc = "fallback_dump"
    /\ LET chatgpt_results ==
               ChatgptResults(failed_locations, standardized_dict.dict)
       IN  /\ chatgpt_results_file' = Dumped(chatgpt_results)
           /\ summary' =
                  PrintSummary(
                      Len(failed_locations),
                      SuccessfulStandardizations(failed_locations,
                                                 standardized_dict.dict),
                      UnknownLocations(failed_locations,
                                       standardized_dict.dict),
                      Len(chatgpt_results))
    /\ pc' = "done"
    /\ UNCHANGED <<fallbackFrame, script, retryLocals, standardized_dict>>

\* ---------------------------------------------------------- location service
\* location_utils.py: LocationService.  Places lie on one line, a position
\* is in thousandths of a mile, and the distance of two places is the
\* difference of their positions.  The positions are even, so no distance
\* is half-way between two hundredths.
MaxCandidates == 3

\* the place of a location the geocoding service knows
Place(location) ==
    CASE location = "p" -> 100
      [] location = "q" -> 104
      [] location = "r" -> 88

KnownLocations == {"p", "q", "r"}

\* location fields: "" is a missing or empty field, "x" a string the
\* geocoding service has no result for
LocationFields == KnownLocations \cup {"", "x"}

\* the entities: dicts with an id and a location field
CandidateLists ==
    UNION {{[j \in 1..n |-> [id |-> j, location |-> l[j]]] :
               l \in [1..n -> LocationFields]} : n \in 0..MaxCandidates}

Centers == {"p", "x"}

Radii == {4, 12}

\* the operations called on one service
MaxCalls == 2

\* the city of the address the geocoding service returns for a known
\* location, "" when the address has no city
City(location) ==
    CASE location = "p" -> "P"
      [] location = "q" -> ""
      [] location = "r" -> "P"

\* what a request for a location can yield: the result of a known
\* location, or None (empty response, or a request error that is logged)
Answers(location) ==
    IF location \in KnownLocations
    THEN {Coords(Place(location), City(location)), NoCoords}
    ELSE {NoCoords}

AllAnswers == UNION {Answers(location) : location \in LocationFields}

\* geocode_location: the cached result if there is one, else the answer of
\* the request, which is cached when it is a result
GeocodeLocation(c, location, answer) ==
    IF Has(c, location)
    THEN [result |-> Get(c, location), cache |-> c, requested |-> FALSE]
    ELSE IF answer.found
    THEN [result |-> answer, cache |-> DictSet(c, location, answer),
          requested |-> TRUE]
    ELSE [result |-> NoCoords, cache |-> c, requested |-> TRUE]

\* the requests after a call of geocode_location
Requested(found, location) ==
    IF found.requested THEN Append(requests, location) ELSE requests

\* calculate_distance (the except branch needs coordinates without lat or
\* lon, which geocode_location never returns)
CalculateDistance(loc1, loc2) ==
    IF loc1.pos >= loc2.pos THEN loc1.pos - loc2.pos
    ELSE loc2.pos - loc1.pos

\* round(distance, 2), in thousandths
Round2(distance) == ((distance + 5) \div 10) * 10

InRadius_Strict(distance, radius) == distance < radius

\* distance <= radius_miles
InRadius(distance, radius) == distance <= radius

\* candidate.copy() with the two added fields
WithDistance(candidate, distance, candidate_coords) ==
    [id |-> candidate.id,
     location |-> candidate.location,
     distance_miles |-> Round2(distance),
     coordinates |-> candidate_coords]

SortByDistance_Unsorted(list) == list

\* list.sort(key=lambda x: x['distance_miles']): ascending and stable, an
\* item goes to the place given by the items with a smaller key and the
\* earlier items with an equal key
SortByDistance(list) ==
    LET before(j) ==
            Cardinality({m \in 1..Len(list) :
                \/ list[m].distance_miles < list[j].distance_miles
                \/ /\ list[m].distance_miles = list[j].distance_miles
                   /\ m < j})
    IN  [n \in 1..Len(list) |->
            list[CHOOSE j \in 1..Len(list) : before(j) = n - 1]]

AfterCopy_Alias(list, j, annotated) == [list EXCEPT ![j] = annotated]

\* the list passed in after the copy of its element j got new fields:
\* candidate.copy() is a new dict, so the list and its elements are as
\* before
AfterCopy(list, j, annotated) == list

\* candidate.copy() with the added field of the grouping
WithCoords(candidate, coords) ==
    [id |-> candidate.id,
     location |-> candidate.location,
     coordinates |-> coords]

\* coords.get('city', 'Unknown'): the result of geocode_location always has
\* the key 'city', so the default is never taken
CityKey(coords) == coords.city

\* city_groups after one more candidate: a new bucket when the city has
\* none, and the candidate at its end
GroupAppend(groups, city, candidate) ==
    DictSet(groups, city,
            Append(IF Has(groups, city) THEN Get(groups, city) ELSE << >>,
                   candidate))

serviceFrame == <<input_file, main_file, backup_file, runs, stdLocals,
                  retryLocals, mergeLocals, lookups, ever_good, full_runs,
                  geoLocals, geoFiles, canonVars, fallbackVars>>

\* a call of an operation on the service
ServiceCall(name) ==
    /\ pc \in {"idle", "done"}
    /\ calls < MaxCalls
    /\ calls' = calls + 1
    /\ script' = name
    /\ i' = 0
    /\ resolved' = << >>

\* find_candidates_in_radius up to the loop: the center is resolved (a
\* call that sends no request takes the answer NoCoords)
FindStart(answer) ==
    /\ ServiceCall("find")
    /\ answer \in Answers(center_location)
    /\ Has(cache, center_location) => answer = NoCoords
    /\ LET center == GeocodeLocation(cache, center_location, answer)
       IN  /\ center_coords' = center.result
           /\ cache' = center.cache
           /\ requests' = Requested(center, center_location)
           /\ pc' = IF center.result.found THEN "find_loop"
                    ELSE "done"  \* "Could not geocode center location"
    /\ candidates_in_radius' = << >>
    /\ UNCHANGED <<serviceFrame, candidates, center_location, radius_miles,
                   city_groups>>

\* one iteration of the loop over the candidates (an iteration that sends
\* no request takes the answer NoCoords)
FindCandidate(answer) ==
    /\ script = "find" /\ pc = "find_loop"
    /\ i < Len(candidates)
    /\ LET candidate == candidates[i + 1]
           location == candidate.location
       IN  IF location = ""
           THEN /\ answer = NoCoords
                /\ resolved' = Append(resolved, NoCoords)
                /\ UNCHANGED <<cache, candidates_in_radius, requests,
                               candidates>>
           ELSE LET found == GeocodeLocation(cache, location, answer)
                    candidate_coords == found.result
                    distance == CalculateDistance(center_coords,
                                                  candidate_coords)
                    annotated == WithDistance(candidate, distance,
                                              candidate_coords)
                IN  /\ answer \in Answers(location)
                    /\ Has(cache, location) => answer = NoCoords
                    /\ cache' = found.cache
                    /\ requests' = Requested(found, location)
                    /\ resolved' = Append(resolved, candidate_coords)
                    /\ IF candidate_coords.found
                          /\ InRadius(distance, radius_miles)
                       THEN /\ candidates_in_radius' =
                                   Append(candidates_in_radius, annotated)
                            /\ candidates' =
                                   AfterCopy(candidates, i + 1, annotated)
                       ELSE UNCHANGED <<candidates_in_radius, candidates>>
    /\ i' = i + 1
    /\ UNCHANGED <<serviceFrame, script, pc, center_location, radius_miles,
                   center_coords, city_groups, calls>>

\* the sort after the loop, and the return
FindSort ==
    /\ script = "find" /\ pc = "find_loop"
    /\ i = Len(candidates)
    /\ candidates_in_radius' = SortByDistance(candidates_in_radius)
    /\ pc' = "done"
    /\ UNCHANGED <<serviceFrame, script, i, candidates, center_location,
                   radius_miles, cache, center_coords, resolved,
                   city_groups, calls, requests>>

\* group_candidates_by_city up to the loop
GroupStart ==
    /\ ServiceCall("group")
    /\ city_groups' = EmptyDict
    /\ pc' = IF Len(candidates) = 0 THEN "done" ELSE "group_loop"
    /\ UNCHANGED <<serviceFrame, candidates, center_location, radius_miles,
                   cache, center_coords, candidates_in_radius, requests>>

\* one iteration of the loop over the candidates; the return follows the
\* last one
GroupCandidate(answer) ==
    /\ script = "group" /\ pc = "group_loop"
    /\ i < Len(candidates)
    /\ LET candidate == candidates[i + 1]
           location == candidate.location
       IN  IF location = ""
           THEN /\ answer = NoCoords
                /\ resolved' = Append(resolved, NoCoords)
                /\ UNCHANGED <<cache, city_groups, requests, candidates>>
           ELSE LET found == GeocodeLocation(cache, location, answer)
                    coords == found.result
                    candidate_with_coords == WithCoords(candidate, coords)
                IN  /\ answer \in Answers(location)
                    /\ Has(cache, location) => answer = NoCoords
                    /\ cache' = found.cache
                    /\ requests' = Requested(found, location)
                    /\ resolved' = Append(resolved, coords)
                    /\ IF coords.found
                       THEN /\ city_groups' =
                                   GroupAppend(city_groups, CityKey(coords),
                                               candidate_with_coords)
                            /\ candidates' =
                                   AfterCopy(candidates, i + 1,
                                             candidate_with_coords)
                       ELSE UNCHANGED <<city_groups, candidates>>
    /\ i' = i + 1
    /\ pc' = IF i + 1 = Len(candidates) THEN "done" ELSE "group_loop"
    /\ UNCHANGED <<serviceFrame, script, center_location, radius_miles,
                   center_coords, candidates_in_radius, calls>>

\* ------------------------------------------------------------ termination
\* the running script is killed (signal, power loss) at its current step;
\* its memory is gone, the files stay as they are
Terminate ==
    /\ ~Idle
    /\ pc' = "killed"
    /\ ResetStd /\ ResetRetry /\ ResetMerge /\ ResetGeo
    /\ i' = 0
    /\ lookups' = {}
    /\ UNCHANGED <<input_file, main_file, backup_file, script, runs,
                   ever_good, full_runs>>
    /\ UNCHANGED restVars

\* ---------------------------------------------------------- specification
PipelineInit ==
    /\ input_file \in {NotFound} \cup {Dumped(l) : l \in InputLists}
    /\ main_file = NotFound
    /\ backup_file = NotFound
    /\ script = "none"
    /\ pc = "idle"
    /\ runs = 0
    /\ locations = << >>
    /\ existing_data = EmptyDict
    /\ output_data = EmptyDict
    /\ max_locations = 0
    /\ i = 0
    /\ data = EmptyDict
    /\ failed_locations = << >>
    /\ main_data = EmptyDict
    /\ chatgpt_data = EmptyDict
    /\ updated_main_data = EmptyDict
    /\ idx = 0
    /\ counts = NoCounts
    /\ lookups = {}
    /\ ever_good = {}
    /\ full_runs = 0
    /\ geocoded_file = NotFound
    /\ reverse_file = NotFound
    /\ geo_runs = 0
    /\ standardized_data = EmptyDict
    /\ unique_standardized = << >>
    /\ existing_geocoded = EmptyDict
    /\ geo_full_run_on = NotFound

CanonInit ==
    /\ api_result = NoResult
    /\ canonical = Unset

FallbackInit ==
    /\ standardized_dict = NotParsed
    /\ chatgpt_results_file = NotFound
    /\ summary = NoSummary

ServiceInit ==
    /\ candidates = << >>
    /\ center_location = ""
    /\ radius_miles = 0
    /\ cache = EmptyDict
    /\ center_coords = NoCoords
    /\ candidates_in_radius = << >>
    /\ resolved = << >>
    /\ city_groups = EmptyDict
    /\ calls = 0
    /\ requests = << >>

Init == PipelineInit /\ CanonInit /\ FallbackInit /\ ServiceInit

Next ==
    \/ \E max \in Limits : StdStart(max)
    \/ \E standardized \in LookupResults : StdStandardize(standardized)
    \/ StdOpen
    \/ StdDump
    \/ StdFinalOpen
    \/ StdFinalDump
    \/ \E max_retries \in Limits : RetryStart(max_retries)
    \/ \E standardized \in LookupResults : RetryStandardize(standardized)
    \/ RetryOpen
    \/ RetryDump
    \/ RetryFinalOpen
    \/ RetryFinalDump
    \/ \E chatgpt_file \in FallbackFiles(main_file) : MergeStart(chatgpt_file)
    \/ MergeBackupOpen
    \/ MergeBackupDump
    \/ MergeStep
    \/ MergeSaveOpen
    \/ MergeSaveDump
    \/ Terminate

Spec == Init /\ [][Next]_vars

\* the standardizer and the geocoder, run one after the other in any order
NextGeo ==
    \/ \E max \in Limits : StdStart(max)
    \/ \E standardized \in LookupResults : StdStandardize(standardized)
    \/ StdOpen
    \/ StdDump
    \/ StdFinalOpen
    \/ StdFinalDump
    \/ \E max \in Limits : GeoStart(max)
    \/ \E geocoded \in GeocodeResults : GeoGeocode(geocoded)
    \/ GeoOpen
    \/ GeoDump
    \/ GeoFinalOpen
    \/ GeoFinalDump
    \/ GeoReverseOpen
    \/ GeoReverseDump
    \/ Terminate

SpecGeo == Init /\ [][NextGeo]_vars

\* the standardization stores that earlier standardizer runs over the
\* input l can have left: a file cut short by a kill during a rewrite, or
\* the first n items with their outcomes
StoresLeft(l) ==
    {Truncated} \cup
    UNION {{Dumped([j \in 1..n |-> <<l[j], v[j]>>]) :
               v \in [1..n -> Strings \cup {FAILED}]} : n \in 1..Len(l)}

\* the geocoded stores that earlier geocoder runs over the store f can have
\* left: none, one cut short, or the first n canonical strings geocoded
GeocodedLeft(f) ==
    LET groups == SuccessfulStandardized(f.data)
    IN  {NotFound, Truncated} \cup
        {Dumped([j \in 1..n |-> <<groups[j][1],
                                   GeoEntry("g1", groups[j][2])>>]) :
            n \in 1..Len(groups)}

\* the last standardizer run and the last geocoder run, in any order, over
\* output stores that earlier runs have left
InitResume ==
    /\ input_file \in {Dumped(l) : l \in InputLists}
    /\ main_file \in StoresLeft(input_file.data)
    /\ backup_file = NotFound
    /\ script = "none"
    /\ pc = "idle"
    /\ runs = MaxRuns - 1
    /\ locations = << >>
    /\ existing_data = EmptyDict
    /\ output_data = EmptyDict
    /\ max_locations = 0
    /\ i = 0
    /\ data = EmptyDict
    /\ failed_locations = << >>
    /\ main_data = EmptyDict
    /\ chatgpt_data = EmptyDict
    /\ updated_main_data = EmptyDict
    /\ idx = 0
    /\ counts = NoCounts
    /\ lookups = {}
    /\ ever_good = GoodKeys(main_file.data)
    /\ full_runs = 0
    /\ geocoded_file \in GeocodedLeft(main_file)
    /\ reverse_file = NotFound
    /\ geo_runs = MaxGeoRuns - 1
    /\ standardized_data = EmptyDict
    /\ unique_standardized = << >>
    /\ existing_geocoded = EmptyDict
    /\ geo_full_run_on = NotFound
    /\ CanonInit /\ FallbackInit /\ ServiceInit

SpecResume == InitResume /\ [][NextGeo]_vars

\* the canonicalizer applied to one response
InitCanon ==
    /\ PipelineInit /\ FallbackInit /\ ServiceInit
    /\ input_file = NotFound
    /\ api_result \in ApiResults
    /\ canonical = Unset

NextCanon == ExtractLocationComponents

SpecCanon == InitCanon /\ [][NextCanon]_vars

\* one fallback pass over a store
InitFallback ==
    /\ input_file = NotFound
    /\ main_file \in FallbackStores
    /\ backup_file = NotFound
    /\ script = "none"
    /\ pc = "idle"
    /\ runs = 0
    /\ locations = << >>
    /\ existing_data = EmptyDict
    /\ output_data = EmptyDict
    /\ max_locations = 0
    /\ i = 0
    /\ data = EmptyDict
    /\ failed_locations = << >>
    /\ main_data = EmptyDict
    /\ chatgpt_data = EmptyDict
    /\ updated_main_data = EmptyDict
    /\ idx = 0
    /\ counts = NoCounts
    /\ lookups = {}
    /\ ever_good = {}
    /\ full_runs = 0
    /\ geocoded_file = NotFound
    /\ reverse_file = NotFound
    /\ geo_runs = 0
    /\ standardized_data = EmptyDict
    /\ unique_standardized = << >>
    /\ existing_geocoded = EmptyDict
    /\ geo_full_run_on = NotFound
    /\ CanonInit /\ FallbackInit /\ ServiceInit

NextFallback ==
    \/ FallbackStart
    \/ FallbackNoResponse
    \/ \E response \in Responses(data) : FallbackResponse(response)
    \/ \E items \in ArrayResponses(data) : FallbackArrayResponse(items)
    \/ FallbackOpen
    \/ FallbackDump

SpecFallback == InitFallback /\ [][NextFallback]_vars

\* calls of find_candidates_in_radius and group_candidates_by_city on one
\* new service
InitService ==
    /\ PipelineInit /\ CanonInit /\ FallbackInit
    /\ input_file = NotFound
    /\ candidates \in CandidateLists
    /\ center_location \in Centers
    /\ radius_miles \in Radii
    /\ cache = EmptyDict
    /\ center_coords = NoCoords
    /\ candidates_in_radius = << >>
    /\ resolved = << >>
    /\ city_groups = EmptyDict
    /\ calls = 0
    /\ requests = << >>

NextService ==
    \/ \E answer \in AllAnswers : FindStart(answer)
    \/ \E answer \in AllAnswers : FindCandidate(answer)
    \/ FindSort
    \/ GroupStart
    \/ \E answer \in AllAnswers : GroupCandidate(answer)

SpecService == InitService /\ [][NextService]_vars


\* ------------------------------------------------------------ properties
\* the standardizer is inside its loop or its final save
StdRunning ==
    script = "std" /\ pc \in {"std_loop", "std_open", "std_dump",
                              "std_final_dump"}

\* the merge ran to its end
Merged == script = "merge" /\ pc = "done"

\* entries of d with a usable fallback result: FAILED, in the fallback, and
\* the result is none of the sentinels
Upgradable(d, chatgpt) ==
    {k \in Keys(d) : /\ Get(d, k) = FAILED
                     /\ Has(chatgpt, k)
                     /\ Get(chatgpt, k) \notin
                            {UNKNOWN, MISSING_FROM_RESPONSE, FAILED}}

\* position of key k in dict d
Pos(d, k) == CHOOSE j \in 1..Len(d) : d[j][1] = k

\* C1: at every point where the standardizer run can be terminated, with i
\* items saved, the store file is completely written and holds exactly
\* the entries loaded at start plus the first i items of the work list, each
\* new one mapped to a canonical string or FAILED.
C1_CrashSafe ==
    StdRunning =>
        /\ main_file.state # "partial"
        /\ Keys(main_file.data) =
               Keys(existing_data) \cup {locations[j] : j \in 1..i}
        /\ \A k \in Keys(existing_data) :
               Get(main_file.data, k) = Get(existing_data, k)
        /\ \A j \in 1..i :
               Get(main_file.data, locations[j]) \in Strings \cup {FAILED}

\* C2: a no-limit standardizer run started right after a no-limit run that
\* reached its end returns at once, issues no lookup and leaves the store
\* file as it was.
C2_SecondRunIdempotent ==
    [][(/\ full_runs >= 1
        /\ Idle
        /\ script' = "std"
        /\ runs' = runs + 1
        /\ max_locations' = 0)
       => (/\ pc' = "done"
           /\ lookups' = {}
           /\ main_file' = main_file)]_vars

C2_Witness ==
    /\ script = "std" /\ pc = "done"
    /\ full_runs = 2
    /\ lookups = {}
    /\ main_file.state = "ok"
    /\ Len(main_file.data) = Len(input_file.data)
    /\ Len(main_file.data) >= 2

\* C3: a key that held a non-FAILED value in a written store never holds
\* FAILED in a later written store.
C3_NeverDowngraded ==
    main_file.state = "ok" =>
        \A k \in ever_good :
            Has(main_file.data, k) => Get(main_file.data, k) # FAILED

\* C4: the store written by the merge has every non-FAILED entry of the
\* primary store, same key and same value.
C4_MergePreservesSuccess ==
    Merged =>
        /\ main_file = Dumped(updated_main_data)
        /\ \A k \in GoodKeys(main_data) :
               /\ Has(main_file.data, k)
               /\ Get(main_file.data, k) = Get(main_data, k)

C4_Witness ==
    /\ Merged
    /\ GoodKeys(main_data) # {}
    /\ \E k \in Upgradable(main_data, chatgpt_data) :
           Get(chatgpt_data, k) \in GoodKeys(main_data)

\* C5: when the fallback maps two distinct FAILED keys of the primary store
\* to the same canonical string, the merged store has that canonical key,
\* keeps the second key with value FAILED, and is not smaller than the
\* primary store.
C5_TwoToOneKeepsBoth ==
    Merged =>
        \A r1, r2 \in Upgradable(main_data, chatgpt_data) :
            (/\ Pos(main_data, r1) < Pos(main_data, r2)
             /\ Get(chatgpt_data, r1) = Get(chatgpt_data, r2))
            => /\ Has(main_file.data, Get(chatgpt_data, r1))
               /\ Has(main_file.data, r2)
               /\ Get(main_file.data, r2) = FAILED
               /\ Len(main_file.data) >= Len(main_data)

\* C6: the merge drops no record: a FAILED key whose fallback result is
\* another key of the primary store stays in the merged store, and the
\* merged store has at least as many entries as the primary store.
C6_MergeDropsNothing ==
    Merged =>
        /\ Len(main_file.data) >= Len(main_data)
        /\ \A r \in Upgradable(main_data, chatgpt_data) :
               Get(chatgpt_data, r) \in Keys(main_data) \ {r}
                   => Has(main_file.data, r)

\* C7: a FAILED entry whose key is not in the fallback, or whose fallback
\* result is UNKNOWN, MISSING_FROM_RESPONSE or FAILED, is in the merged
\* store under its raw key with value FAILED.
C7_UnimprovedKept ==
    Merged =>
        \A r \in Keys(main_data) :
            (/\ Get(main_data, r) = FAILED
             /\ r \notin Upgradable(main_data, chatgpt_data))
            => /\ Has(main_file.data, r)
               /\ Get(main_file.data, r) = FAILED

C7_Witness ==
    /\ Merged
    /\ \E r1, r2, r3 \in Keys(main_data) :
           /\ Get(main_data, r1) = FAILED /\ ~Has(chatgpt_data, r1)
           /\ Get(main_data, r2) = FAILED /\ Has(chatgpt_data, r2)
           /\ Get(chatgpt_data, r2) = MISSING_FROM_RESPONSE
           /\ r3 \in Upgradable(main_data, chatgpt_data)
           /\ Get(chatgpt_data, r3) \in {r1, r2}

\* the merge loop is about to process a FAILED entry whose fallback result
\* is usable and not yet a key of the output
FreshUpgrade ==
    /\ script = "merge" /\ pc = "merge_loop" /\ idx < Len(main_data)
    /\ main_data[idx + 1][1] \in Upgradable(main_data, chatgpt_data)
    /\ ~Has(updated_main_data, Get(chatgpt_data, main_data[idx + 1][1]))

\* C8: such an entry adds the canonical key with value FAILED and nothing
\* else to the output (the raw key is not added); every value a loop step
\* writes for a FAILED entry is FAILED; the merged store has exactly the
\* non-FAILED entries of the primary store.
C8_UpgradeKeyOnly ==
    /\ [][(FreshUpgrade /\ idx' = idx + 1) =>
            LET C == Get(chatgpt_data, main_data[idx + 1][1])
            IN  /\ Keys(updated_main_data') = Keys(updated_main_data) \cup {C}
                /\ Get(updated_main_data', C) = FAILED
                /\ \A k \in Keys(updated_main_data) :
                       Get(updated_main_data', k) = Get(updated_main_data, k)
          ]_vars
    /\ [][(/\ script = "merge" /\ pc = "merge_loop" /\ idx' = idx + 1
           /\ main_data[idx + 1][2] = FAILED)
          => \A k \in Keys(updated_main_data') :
                 (\/ ~Has(updated_main_data, k)
                  \/ Get(updated_main_data, k) # Get(updated_main_data', k))
                 => Get(updated_main_data', k) = FAILED
          ]_vars
    /\ [](Merged =>
            {<<k, Get(main_file.data, k)>> : k \in GoodKeys(main_file.data)}
            = {<<k, Get(main_data, k)>> : k \in GoodKeys(main_data)})

C8_Witness ==
    /\ Merged
    /\ GoodKeys(main_data) # {}
    /\ \E r \in Upgradable(main_data, chatgpt_data) :
           /\ ~Has(main_file.data, r)
           /\ Has(main_file.data, Get(chatgpt_data, r))
           /\ Get(main_file.data, Get(chatgpt_data, r)) = FAILED

\* C9: from the end of the backup write on, the backup file holds the
\* primary store as the merge read it; the merge does not touch the main
\* file before that; and at every step at which the merge changes the main
\* file the backup holds that store and is left alone.
C9_BackupBeforeRewrite ==
    /\ [](script = "merge" /\ pc \in {"merge_loop", "merge_save_dump", "done"}
            => backup_file = Dumped(main_data))
    /\ [](script = "merge" /\ pc \in {"merge_backup_open",
                                      "merge_backup_dump", "merge_loop"}
            => main_file = Dumped(main_data))
    /\ [][(script = "merge" /\ main_file' # main_file)
            => /\ backup_file = Dumped(main_data)
               /\ backup_file' = backup_file]_vars

C9_Witness ==
    /\ Merged
    /\ main_file.data # main_data
    /\ Len(main_data) >= 2
    /\ backup_file = Dumped(main_data)

\* C10: the work list of a standardizer run has no key of the store loaded
\* at start, FAILED entries included; the run looks up only items of its
\* work list, so none of those keys; while the run has saved nothing the
\* loaded store is the store file.
C10_ProcessedSkipped ==
    /\ [][(Idle /\ script' = "std" /\ runs' = runs + 1
           /\ main_file.state = "ok")
          => /\ existing_data' = main_file.data
             /\ \A j \in 1..Len(locations') :
                    ~Has(main_file.data, locations'[j])]_vars
    /\ [](script = "std" =>
            /\ lookups \subseteq {locations[j] : j \in 1..Len(locations)}
            /\ lookups \cap Keys(existing_data) = {})

C10_Witness ==
    /\ script = "std" /\ pc = "done"
    /\ lookups # {}
    /\ \E j \in 1..Len(input_file.data) :
           /\ Has(existing_data, input_file.data[j])
           /\ Get(existing_data, input_file.data[j]) = FAILED
           /\ input_file.data[j] \notin lookups

\* the geocoder returned, by the early return or after the reverse index
GeoReturned == script = "geo" /\ pc = "done"

\* C11: a no-limit geocoder run that starts on the standardization store
\* its predecessor ran to the end on, the geocoded store being its prior
\* output, returns before the loop (no geocode lookup) and leaves the
\* geocoded store as it is.
C11_GeoSecondRunIdempotent ==
    [][(/\ Idle /\ script' = "geo" /\ geo_runs' = geo_runs + 1
        /\ max_locations' = 0
        /\ geo_full_run_on.state = "ok"
        /\ geo_full_run_on = main_file
        /\ geocoded_file.state = "ok")
       => /\ pc' = "done"
          /\ lookups' = {}
          /\ geocoded_file' = geocoded_file]_vars

\* C12: between saves the persisted store has an entry for every item the
\* running batch has attempted so far, for the geocoder as for the
\* standardizer.
C12_AttemptsRecorded ==
    /\ (script = "geo" /\ pc = "geo_loop" /\ i > 0)
       => \A j \in 1..i : Has(geocoded_file.data, unique_standardized[j])
    /\ (script = "std" /\ pc = "std_loop" /\ i > 0)
       => \A j \in 1..i : Has(main_file.data, locations[j])

\* the raw keys of store d whose value is canonical string c, in store order
RawKeysOf(d, c) ==
    LET es == SelectSeq(d, LAMBDA e : e[2] = c)
    IN  [j \in 1..Len(es) |-> es[j][1]]

\* C13: when a geocoder run has returned, every entry of the geocoded store
\* lists all raw keys of the standardization store whose value is the
\* entry's canonical string, original_count is the length of that list, and
\* the work list of a run names no canonical string twice (one lookup per
\* list item).
C13_EntriesListAllRawKeys ==
    /\ (GeoReturned /\ main_file.state = "ok" /\ geocoded_file.state = "ok")
       => \A j \in 1..Len(geocoded_file.data) :
              LET c == geocoded_file.data[j][1]
                  e == geocoded_file.data[j][2]
              IN  /\ e.original_locations = RawKeysOf(main_file.data, c)
                  /\ e.original_count = Len(e.original_locations)
    /\ script = "geo"
       => \A p, q \in 1..Len(unique_standardized) :
              p # q => unique_standardized[p] # unique_standardized[q]

\* C14: when a geocoder run has returned, the reverse index is the one
\* derived from the geocoded store and the standardization store: its keys
\* are the raw strings whose non-FAILED canonical string is a key of the
\* geocoded store, each with that canonical string and its coordinates.
C14_ReverseIndexRegenerated ==
    (GeoReturned /\ main_file.state = "ok" /\ geocoded_file.state = "ok")
    => /\ reverse_file.state = "ok"
       /\ Keys(reverse_file.data) =
              {k \in Keys(main_file.data) :
                  /\ Get(main_file.data, k) # FAILED
                  /\ Has(geocoded_file.data, Get(main_file.data, k))}
       /\ \A k \in Keys(reverse_file.data) :
              LET r == Get(reverse_file.data, k)
              IN  /\ r.standardized_location = Get(main_file.data, k)
                  /\ r.coords = Get(geocoded_file.data,
                                    r.standardized_location).coords

\* the number of FAILED entries of d
FailedCount(d) == Len(SelectSeq(d, LAMBDA e : e[2] = FAILED))

\* C15: a retry run starts from the store as loaded and a work list of keys
\* that are FAILED in it; one iteration looks up the next key of the list,
\* keeps the keys and their order, leaves every other entry alone, and
\* changes the entry of that key only from FAILED to a canonical string;
\* the count of FAILED entries does not grow; what the run has saved is
\* that dict.
C15_RetryFrame ==
    /\ [][(Idle /\ script' = "retry" /\ runs' = runs + 1
           /\ main_file.state = "ok")
          => /\ data' = main_file.data
             /\ \A j \in 1..Len(failed_locations') :
                    /\ Has(main_file.data, failed_locations'[j])
                    /\ Get(main_file.data, failed_locations'[j]) = FAILED]_vars
    /\ [][(script = "retry" /\ pc = "retry_loop" /\ pc' = "retry_open")
          => LET location == failed_locations[i + 1]
             IN  /\ lookups' = lookups \cup {location}
                 /\ Len(data') = Len(data)
                 /\ \A j \in 1..Len(data) :
                        /\ data'[j][1] = data[j][1]
                        /\ data[j][1] # location => data'[j] = data[j]
                        /\ data[j][2] # FAILED => data'[j] = data[j]
                        /\ data'[j] # data[j] => data'[j][2] \in Strings
                 /\ FailedCount(data') <= FailedCount(data)]_vars
    /\ [][(script = "retry" /\ script' = "retry" /\ pc # "retry_loop"
           /\ ~Idle)
          => data' = data \/ pc' = "killed"]_vars
    /\ []((script = "retry" /\ pc \in {"retry_loop", "done"}
           /\ main_file.state = "ok")
          => main_file.data = data)

C15_Witness ==
    /\ script = "retry" /\ pc = "done"
    /\ main_file = Dumped(data)
    /\ \E k \in lookups : Get(data, k) # FAILED
    /\ \E k \in lookups : Get(data, k) = FAILED
    /\ \E k \in Keys(data) \ lookups : Get(data, k) # FAILED

\* the canonicalizer returned the string built from the address components
FromParts ==
    /\ canonical # Unset
    /\ Len(Parts(api_result.address)) >= 2

\* the first non-empty value of a list of field values, "" when none
RECURSIVE FirstNonEmpty(_)
FirstNonEmpty(values) ==
    IF values = << >> THEN ""
    ELSE IF Head(values) # "" THEN Head(values)
    ELSE FirstNonEmpty(Tail(values))

\* C16: in a canonical string built from the address components the city
\* component, when one of city, town, village, suburb is set, comes first
\* and is the first non-empty of them in that order (city's value when
\* city and town are both set); the region component is the first
\* non-empty of state, province, county and follows the city component,
\* unless it repeats it.
C16_ComponentPriority ==
    FromParts =>
        LET a == api_result.address
            city == FirstNonEmpty(<<a.city, a.town, a.village, a.suburb>>)
            region == FirstNonEmpty(<<a.state, a.province, a.county>>)
            c == canonical.components
        IN  /\ canonical.kind = "str"
            /\ city # "" => c[1] = city
            /\ (a.city # "" /\ a.town # "") => c[1] = a.city
            /\ (region # "" /\ city = "") => c[1] = region
            /\ (region # "" /\ city # "" /\ region # city) => c[2] = region

C16_Witness ==
    /\ FromParts
    /\ api_result.address.city = "X"
    /\ api_result.address.town = "Y"
    /\ api_result.address.state = ""
    /\ api_result.address.province = "Y"
    /\ api_result.address.county = "X"
    /\ canonical.components[1] = "X"
    /\ canonical.components[2] = "Y"

\* C17: when state equals city (both set) the canonical string has that
\* name as exactly one of its components.
C17_CityStateOnce ==
    (/\ canonical # Unset
     /\ api_result.address.city # ""
     /\ api_result.address.state = api_result.address.city)
    => /\ canonical.kind = "str"
       /\ Cardinality({j \in 1..Len(canonical.components) :
                          canonical.components[j] = api_result.address.city})
          = 1

C17_Witness ==
    /\ canonical # Unset
    /\ api_result.address.city = "X"
    /\ api_result.address.state = "X"
    /\ api_result.address.country = "Y"
    /\ canonical = Str(<<"X", "Y">>)

\* C18: when a fallback pass whose response parsed has returned, the keys
\* of the result mapping are the FAILED keys of the standardization store;
\* a key that is in the response has the response's value, any other has
\* MISSING_FROM_RESPONSE, which is not UNKNOWN; no other key of the response
\* is in the result.
C18_FallbackResultKeys ==
    (script = "fallback" /\ pc = "done" /\ standardized_dict.parsed)
    => LET response == standardized_dict.dict
           result == chatgpt_results_file.data
       IN  /\ chatgpt_results_file.state = "ok"
           /\ Keys(result) = {k \in Keys(main_file.data) :
                                 Get(main_file.data, k) = FAILED}
           /\ Len(result) = Cardinality(Keys(result))
           /\ \A k \in Keys(result) :
                  Get(result, k) = IF Has(response, k) THEN Get(response, k)
                                   ELSE MISSING_FROM_RESPONSE
           /\ MISSING_FROM_RESPONSE # UNKNOWN

C18_Witness ==
    /\ script = "fallback" /\ pc = "done" /\ standardized_dict.parsed
    /\ Has(standardized_dict.dict, NotSent)
    /\ \E k \in Keys(standardized_dict.dict) :
           Has(main_file.data, k) /\ Get(main_file.data, k) # FAILED
    /\ \E k \in Keys(chatgpt_results_file.data) :
           Get(chatgpt_results_file.data, k) = MISSING_FROM_RESPONSE
    /\ \E k \in Keys(chatgpt_results_file.data) :
           Get(chatgpt_results_file.data, k) = UNKNOWN

\* find_candidates_in_radius returned
Found == script = "find" /\ pc = "done"

\* C19: the result of find_candidates_in_radius holds one item for each
\* entity whose location is non-empty, whose lookup returned coordinates
\* and whose distance from the center is at most the radius, and nothing
\* else; the item is the entity with its rounded distance and its
\* coordinates; the call always returns, and with an unresolved center it
\* returns the empty list.
C19_WithinRadiusExactly ==
    /\ Found =>
          LET r == candidates_in_radius
              within(j) ==
                  /\ candidates[j].location # ""
                  /\ resolved[j].found
                  /\ CalculateDistance(center_coords, resolved[j])
                         <= radius_miles
          IN  IF ~center_coords.found THEN r = << >>
              ELSE /\ Len(resolved) = Len(candidates)
                   /\ {r[n].id : n \in 1..Len(r)} =
                          {j \in 1..Len(candidates) : within(j)}
                   /\ Len(r) = Cardinality({r[n].id : n \in 1..Len(r)})
                   /\ \A n \in 1..Len(r) :
                          /\ r[n].location = candidates[r[n].id].location
                          /\ r[n].coordinates = resolved[r[n].id]
                          /\ r[n].distance_miles =
                                 Round2(CalculateDistance(center_coords,
                                                          resolved[r[n].id]))
    /\ script = "find" => pc \in {"find_loop", "done"}

C19_Witness ==
    /\ Found /\ center_coords.found
    /\ Len(candidates) = 3
    /\ Len(candidates_in_radius) = 1
    /\ CalculateDistance(center_coords, candidates_in_radius[1].coordinates)
           = radius_miles
    /\ \E j \in 1..3 : candidates[j].location = "x"
    /\ \E j \in 1..3 : candidates[j].location # "" /\ resolved[j].found
                       /\ CalculateDistance(center_coords, resolved[j])
                              > radius_miles

\* C20: the result is in ascending order of the annotated distance, and
\* items with equal annotated distance are in input order.
C20_SortedStable ==
    Found =>
        \A m, n \in 1..Len(candidates_in_radius) :
            m < n =>
                LET a == candidates_in_radius[m]
                    b == candidates_in_radius[n]
                IN  /\ a.distance_miles <= b.distance_miles
                    /\ a.distance_miles = b.distance_miles => a.id < b.id

C20_Witness ==
    /\ Found
    /\ Len(candidates_in_radius) = 3
    /\ candidates_in_radius[1].id = 2
    /\ candidates_in_radius[2].id = 3
    /\ candidates_in_radius[3].id = 1
    /\ candidates_in_radius[1].distance_miles
           = candidates_in_radius[2].distance_miles
    /\ candidates_in_radius[2].distance_miles
           < candidates_in_radius[3].distance_miles

\* C21: no location string is requested from the geocoding service twice
\* on one service, whatever the operations that resolve it and whatever the
\* outcome of the first request.
C21_OneRequestPerLocation ==
    \A m, n \in 1..Len(requests) : m # n => requests[m] # requests[n]

\* group_candidates_by_city returned
Grouped == script = "group" /\ pc = "done"

\* the ids of the entities in bucket city of the grouping
Bucket(city) ==
    IF Has(city_groups, city)
    THEN {Get(city_groups, city)[n].id :
             n \in 1..Len(Get(city_groups, city))}
    ELSE {}

\* C22: when group_candidates_by_city has returned, every entity whose
\* lookup returned coordinates is in the bucket of the returned city, or in
\* the bucket "Unknown" when the returned address has no city, and in no
\* other bucket.
C22_GroupedByCityOrUnknown ==
    Grouped =>
        \A j \in 1..Len(candidates) :
            (candidates[j].location # "" /\ resolved[j].found)
            => LET name == IF resolved[j].city = "" THEN "Unknown"
                           ELSE resolved[j].city
               IN  \A city \in Keys(city_groups) \cup {name} :
                       j \in Bucket(city) <=> city = name

\* C29: no step of find_candidates_in_radius or group_candidates_by_city
\* changes the list passed in: its length, its order and the fields of its
\* entities stay.
C29_InputsNotMutated ==
    [][candidates' = candidates]_vars

C29_Witness ==
    /\ Grouped
    /\ calls = 2
    /\ Len(candidates) = 2
    /\ Len(candidates_in_radius) = 2
    /\ Bucket("P") = {1, 2}
    /\ \A j \in 1..2 : candidates[j] = [id |-> j, location |-> "p"]

\* C23: a canonical string built from the address components has two
\* components at least; with fewer than two parts assembled the result is
\* the display name without its postal-code segments and without empty
\* segments (the empty string, which every caller takes as a failure, when
\* nothing is left), or None when there is no display name.
C23_TwoComponentsOrDisplayName ==
    canonical # Unset =>
        IF Len(Parts(api_result.address)) >= 2
        THEN /\ canonical.kind = "str"
             /\ Len(canonical.components) >= 2
        ELSE IF api_result.display_name = << >>
        THEN canonical = NoneResult
        ELSE canonical = Str(SelectSeq(api_result.display_name,
                                       LAMBDA segment : segment # ZIP))

\* parts without every part that equals the part just before it
WithoutAdjacentDuplicates(parts) ==
    LET keep == SelectSeq([j \in 1..Len(parts) |-> j],
                          LAMBDA j : j = 1 \/ parts[j - 1] # parts[j])
    IN  [n \in 1..Len(keep) |-> parts[keep[n]]]

\* C24: the canonical string built from the address components is the list
\* of parts without the parts equal to their left neighbour; two equal
\* parts with a different part between them both stay.
C24_OnlyAdjacentDuplicatesRemoved ==
    FromParts =>
        canonical = Str(WithoutAdjacentDuplicates(Parts(api_result.address)))

\* C25: when the merge has run to its end, the counters of the outcome
\* categories add up to the number of FAILED entries of the primary store
\* that have a fallback result.
C25_CountsCoverEveryOutcome ==
    Merged =>
        counts.merged_count + counts.unknown_count + counts.missing_count
        + counts.skipped_count
        = Len(SelectSeq(main_data,
                        LAMBDA e : e[2] = FAILED /\ Has(chatgpt_data, e[1])))

\* C28: the store a merge has produced is a fixed point of the merge with
\* the same fallback mapping: the merge loop run on it gives the same keys
\* with the same values.
C28_MergeIdempotent ==
    Merged =>
        LET first == updated_main_data
            second == MergeLoop(EmptyDict, first, 1, chatgpt_data)
        IN  /\ first = MergeLoop(EmptyDict, main_data, 1, chatgpt_data)
            /\ Keys(second) = Keys(first)
            /\ \A k \in Keys(first) : Get(second, k) = Get(first, k)

\* the first max items of a list, the whole list when there is no limit
\* (0) or the limit is not smaller than the list
UpTo(list, max) ==
    [j \in 1..(IF max # 0 /\ max < Len(list) THEN max ELSE Len(list)) |->
        list[j]]

\* C27: a standardizer or geocoder run that finds its output store present
\* but unreadable does not stop: it enters its loop with an empty store
\* and the whole input (up to the limit) as work list, and the first
\* per-item write of a run that loaded nothing leaves a file that holds at
\* most the first item.
C27_UnreadableStoreStartsFresh ==
    [][/\ (/\ Idle /\ script' = "std" /\ runs' = runs + 1
           /\ input_file.state = "ok" /\ main_file.state = "partial")
          => /\ pc' = "std_loop"
             /\ existing_data' = EmptyDict
             /\ output_data' = EmptyDict
             /\ locations' = UpTo(input_file.data, max_locations')
       /\ (/\ Idle /\ script' = "geo" /\ geo_runs' = geo_runs + 1
           /\ main_file.state = "ok" /\ geocoded_file.state = "partial")
          => /\ pc' = "geo_loop"
             /\ existing_geocoded' = EmptyDict
             /\ output_data' = EmptyDict
             /\ unique_standardized' =
                    UpTo(UniqueStandardized(main_file.data), max_locations')
       /\ (/\ script = "std" /\ pc = "std_dump" /\ pc' = "std_loop"
           /\ i = 0 /\ existing_data = EmptyDict)
          => /\ main_file'.state = "ok"
             /\ Keys(main_file'.data) = {locations[1]}
       /\ (/\ script = "geo" /\ pc = "geo_dump" /\ pc' = "geo_loop"
           /\ i = 0 /\ existing_geocoded = EmptyDict)
          => /\ geocoded_file'.state = "ok"
             /\ Keys(geocoded_file'.data) \subseteq {unique_standardized[1]}
      ]_vars

\* a standardizer run over three locations has made its first write and
\* the file holds "a" alone; the run loaded nothing, so it found the file
\* unreadable (a readable store of this input has an entry)
C27_Witness ==
    /\ script = "std" /\ pc = "std_loop" /\ i = 1
    /\ Len(input_file.data) = 3 /\ locations = input_file.data
    /\ existing_data = EmptyDict
    /\ main_file = Dumped(<<<<"a", FAILED>>>>)

\* C26: when a fallback pass that sent a request has ended without a
\* response that is a JSON mapping (the call raised, the text was not
\* JSON, or it was JSON of another kind), no result file exists and the
\* standardization store is what the pass loaded.
C26_FailedCallWritesNothing ==
    (/\ script = "fallback" /\ pc \in {"done", "raised"}
     /\ Len(failed_locations) > 0
     /\ ~standardized_dict.mapping)
    => /\ chatgpt_results_file = NotFound
       /\ main_file = Dumped(data)

\* the entries of the result file marked MISSING_FROM_RESPONSE
MarkedMissing ==
    Len(SelectSeq(chatgpt_results_file.data,
                  LAMBDA e : e[2] = MISSING_FROM_RESPONSE))

\* C30: in the summary of a fallback pass the numbers of successfully
\* standardized, UNKNOWN and missing entries add up to the number sent, and
\* the number of missing entries is the number of entries marked
\* MISSING_FROM_RESPONSE in the result file.
C30_SummaryAddsUp ==
    summary.printed =>
        /\ summary.successful + summary.unknown + summary.missing
           = summary.total_attempted
        /\ summary.total_attempted = Len(failed_locations)
        /\ summary.missing = MarkedMissing

====
